---------------------------- MODULE Spec2Model ----------------------------
(***************************************************************************)
(* A model of omni-relayer-fees (src/src/main.rs): a command-line tool     *)
(* that, for NEAR, Base, Arbitrum and Solana, fetches the chain's gas      *)
(* price, multiplies it by a fixed gas constant and by the number of       *)
(* transfers in unsigned 128-bit arithmetic, scales the result to the      *)
(* display unit in binary64 floating point, fetches the native token's     *)
(* price and prints one line per chain.                                    *)
(*                                                                         *)
(* The model has three layers:                                             *)
(*   1. natural numbers of any size, as little-endian sequences of 8-bit   *)
(*      limbs (TLC's integers are 32 bits wide, the program's are 128);    *)
(*   2. the program's arithmetic: u128 operations that report overflow,    *)
(*      and binary64 conversion, division and multiplication with          *)
(*      round-to-nearest-even, overflow to infinity and gradual underflow; *)
(*   3. the state machine: main's dispatch, the three calculators, the     *)
(*      network requests they await and the replies of the services.       *)
(***************************************************************************)
EXTENDS Integers, Sequences, FiniteSets, TLC

(***************************************************************************)
(* Layer 1: naturals as limb sequences.  A natural is a sequence of limbs  *)
(* in 0..255, least significant first, whose last limb is not 0; zero is   *)
(* the empty sequence.  Equal numbers are equal sequences.                 *)
(***************************************************************************)
LimbBits == 8

LimbBase == 2 ^ LimbBits

Max(a, b) == IF a >= b THEN a ELSE b

Min(a, b) == IF a <= b THEN a ELSE b

Limb(a, i) == IF i >= 1 /\ i <= Len(a) THEN a[i] ELSE 0

RECURSIVE Norm(_)
Norm(a) ==
    IF a = <<>> THEN a
    ELSE IF a[Len(a)] = 0 THEN Norm(SubSeq(a, 1, Len(a) - 1))
    ELSE a

RECURSIVE FromInt(_)
FromInt(n) == IF n = 0 THEN <<>> ELSE <<n % LimbBase>> \o FromInt(n \div LimbBase)

\* Carry propagation over a sequence of column sums.
RECURSIVE Propagate(_, _, _)
Propagate(cols, i, c) ==
    IF i > Len(cols) THEN FromInt(c)
    ELSE LET s == cols[i] + c
         IN  <<s % LimbBase>> \o Propagate(cols, i + 1, s \div LimbBase)

AddN(a, b) ==
    Norm(Propagate([i \in 1..Max(Len(a), Len(b)) |-> Limb(a, i) + Limb(b, i)], 1, 0))

RECURSIVE ColSum(_, _, _, _, _)
ColSum(a, b, k, i, hi) ==
    IF i > hi THEN 0 ELSE a[i] * b[k + 1 - i] + ColSum(a, b, k, i + 1, hi)

MulN(a, b) ==
    IF a = <<>> \/ b = <<>> THEN <<>>
    ELSE Norm(Propagate(
            [k \in 1..(Len(a) + Len(b) - 1) |->
                ColSum(a, b, k, Max(1, k + 1 - Len(b)), Min(Len(a), k))], 1, 0))

\* a < b, a = b, a > b as -1, 0, 1
RECURSIVE CmpFrom(_, _, _)
CmpFrom(a, b, i) ==
    IF i = 0 THEN 0
    ELSE IF a[i] < b[i] THEN -1
    ELSE IF a[i] > b[i] THEN 1
    ELSE CmpFrom(a, b, i - 1)

CmpN(a, b) ==
    IF Len(a) < Len(b) THEN -1
    ELSE IF Len(a) > Len(b) THEN 1
    ELSE CmpFrom(a, b, Len(a))

\* a - b for a >= b
RECURSIVE Borrow(_, _, _, _)
Borrow(a, b, i, br) ==
    IF i > Len(a) THEN <<>>
    ELSE LET d == a[i] - Limb(b, i) - br
         IN  IF d < 0 THEN <<d + LimbBase>> \o Borrow(a, b, i + 1, 1)
             ELSE <<d>> \o Borrow(a, b, i + 1, 0)

SubN(a, b) == Norm(Borrow(a, b, 1, 0))

RECURSIVE SmallBitLen(_)
SmallBitLen(n) == IF n = 0 THEN 0 ELSE 1 + SmallBitLen(n \div 2)

BitLen(a) == IF a = <<>> THEN 0 ELSE LimbBits * (Len(a) - 1) + SmallBitLen(a[Len(a)])

\* bit k of a, k = 0 the least significant
Bit(a, k) == (Limb(a, (k \div LimbBits) + 1) \div (2 ^ (k % LimbBits))) % 2

Pow2N(k) == [i \in 1..((k \div LimbBits) + 1) |->
                IF i = (k \div LimbBits) + 1 THEN 2 ^ (k % LimbBits) ELSE 0]

ShlN(a, k) == MulN(a, Pow2N(k))

\* floor(a / 2^k)
ShrN(a, k) ==
    LET q == k \div LimbBits
        r == k % LimbBits
    IN  IF Len(a) <= q THEN <<>>
        ELSE Norm([i \in 1..(Len(a) - q) |->
                (a[i + q] \div (2 ^ r))
                + (Limb(a, i + q + 1) % (2 ^ r)) * (2 ^ (LimbBits - r))])

\* a mod 2^k
LowBitsN(a, k) ==
    LET q == k \div LimbBits
        r == k % LimbBits
    IN  IF Len(a) <= q THEN a
        ELSE Norm([i \in 1..(q + 1) |-> IF i <= q THEN a[i] ELSE a[i] % (2 ^ r)])

\* Long division, one limb of the dividend at a time.  QuotLimb is the largest
\* t in 0..LimbBase-1 with t * d <= cur, found one bit at a time from the top.
RECURSIVE QuotLimb(_, _, _, _)
QuotLimb(cur, d, t, bit) ==
    IF bit = 0 THEN t
    ELSE IF CmpN(MulN(d, FromInt(t + bit)), cur) <= 0
         THEN QuotLimb(cur, d, t + bit, bit \div 2)
         ELSE QuotLimb(cur, d, t, bit \div 2)

\* Limbs i, i-1, ..., 1 of n are still to be brought down; q and r are the
\* quotient and remainder of the limbs above them.
RECURSIVE DivFrom(_, _, _, _, _)
DivFrom(n, d, i, q, r) ==
    IF i = 0 THEN [quot |-> Norm(q), rem |-> r]
    ELSE LET cur == Norm(<<n[i]>> \o r)
             t   == QuotLimb(cur, d, 0, LimbBase \div 2)
         IN  IF t = 0 THEN DivFrom(n, d, i - 1, <<0>> \o q, cur)
             ELSE DivFrom(n, d, i - 1, <<t>> \o q, SubN(cur, MulN(d, FromInt(t))))

\* for d # 0
DivModN(n, d) == DivFrom(n, d, Len(n), <<>>, <<>>)

\* A decimal literal written in groups of three digits, as Rust's 33_220_000.
RECURSIVE FromGroups(_, _, _)
FromGroups(g, i, acc) ==
    IF i > Len(g) THEN acc
    ELSE FromGroups(g, i + 1, AddN(MulN(acc, FromInt(1000)), FromInt(g[i])))

Dec(g) == FromGroups(g, 1, <<>>)

RECURSIVE Pow10N(_)
Pow10N(k) == IF k = 0 THEN <<1>> ELSE MulN(FromInt(10), Pow10N(k - 1))


(***************************************************************************)
(* Layer 2: the program's arithmetic.                                      *)
(*                                                                         *)
(* u128: `*` and `+` on u128 (main.rs:65, 97, 110).  A build with overflow *)
(* checks (cargo's dev profile) panics when the exact result does not fit  *)
(* in 128 bits; a build without them (the release profile) keeps the low   *)
(* 128 bits.  Each operation yields both: the wrapped value and whether    *)
(* the exact result overflowed.                                            *)
(***************************************************************************)
U128Bits == 128

U128Max == SubN(Pow2N(U128Bits), <<1>>)

U128Mul(a, b) ==
    LET p == MulN(a, b)
    IN  [val |-> LowBitsN(p, U128Bits), ovf |-> BitLen(p) > U128Bits]

U128Add(a, b) ==
    LET s == AddN(a, b)
    IN  [val |-> LowBitsN(s, U128Bits), ovf |-> BitLen(s) > U128Bits]

(***************************************************************************)
(* f64: a binary64 value is [cls, neg, m, e].  With cls = "num" it stands  *)
(* for (-1)^neg * m * 2^e: a normal number has m of exactly F64Precision   *)
(* bits and F64MinExp <= e <= F64MaxExp, a subnormal number has a shorter  *)
(* m and e = F64MinExp, and zero (of either sign) has m = 0 and e = 0.     *)
(* cls = "inf" is the infinity of sign neg and cls = "nan" is NaN.  Every  *)
(* operation rounds to nearest, ties to even, overflows to infinity and    *)
(* underflows gradually, as IEEE 754 and Rust's `as f64`, `/` and `*` do.  *)
(***************************************************************************)
F64Precision == 53

\* the exponents of the least and the greatest finite binary64, for a
\* mantissa of F64Precision bits
F64MinExp == -1074

F64MaxExp == 971

F64Zero(neg) == [cls |-> "num", neg |-> neg, m |-> <<>>, e |-> 0]

F64Inf(neg) == [cls |-> "inf", neg |-> neg, m |-> <<>>, e |-> 0]

F64NaN == [cls |-> "nan", neg |-> FALSE, m |-> <<>>, e |-> 0]

\* m * 2^e for a rounded mantissa m: zero, a finite number, or infinity
\* when the exponent exceeds the greatest one
F64Pack(neg, m, e) ==
    IF m = <<>> THEN F64Zero(neg)
    ELSE IF e > F64MaxExp THEN F64Inf(neg)
    ELSE [cls |-> "num", neg |-> neg, m |-> m, e |-> e]

\* The binary64 nearest to n * 2^e, where sticky says that the exact value
\* lies strictly above n * 2^e (and below (n+1) * 2^e).  The result's
\* exponent er is that of a mantissa of F64Precision bits, but never less
\* than F64MinExp; sh low bits of n are rounded away.
RoundF64(neg, n, e, sticky) ==
    LET bl == BitLen(n)
        er == Max(e + bl - F64Precision, F64MinExp)
        sh == er - e
    IN  IF n = <<>> THEN F64Zero(neg)
        ELSE IF sh <= 0 THEN F64Pack(neg, ShlN(n, 0 - sh), er)
        ELSE LET q    == ShrN(n, sh)
                 half == Bit(n, sh - 1) = 1
                 rest == sticky \/ LowBitsN(n, sh - 1) # <<>>
                 up   == half /\ (rest \/ Bit(q, 0) = 1)
                 m    == IF up THEN AddN(q, <<1>>) ELSE q
             IN  IF BitLen(m) > F64Precision
                 THEN F64Pack(neg, ShrN(m, 1), er + 1)
                 ELSE F64Pack(neg, m, er)

\* `x as f64` for x: u128 (main.rs:66, 97, 110)
U128ToF64(n) == RoundF64(FALSE, n, 0, FALSE)

\* a float literal with an integral value, such as 1e24 (main.rs:67): the
\* nearest binary64 to the decimal value
F64Literal(n) == RoundF64(FALSE, n, 0, FALSE)

F64IsZero(x) == x.cls = "num" /\ x.m = <<>>

\* x / y for a finite y # 0 (main.rs:67, 97, 110: the divisors are literals)
F64Div(x, y) ==
    IF x.cls = "nan" THEN F64NaN
    ELSE IF x.cls = "inf" THEN F64Inf(x.neg # y.neg)
    ELSE IF x.m = <<>> THEN F64Zero(x.neg # y.neg)
    ELSE LET dm == DivModN(ShlN(x.m, 2 * F64Precision + 3), y.m)
         IN  RoundF64(x.neg # y.neg, dm.quot,
                      x.e - y.e - (2 * F64Precision + 3), dm.rem # <<>>)

\* x * y (main.rs:73, 104, 116)
F64Mul(x, y) ==
    IF x.cls = "nan" \/ y.cls = "nan" THEN F64NaN
    ELSE IF x.cls = "inf" \/ y.cls = "inf"
    THEN IF F64IsZero(x) \/ F64IsZero(y) THEN F64NaN ELSE F64Inf(x.neg # y.neg)
    ELSE IF x.m = <<>> \/ y.m = <<>> THEN F64Zero(x.neg # y.neg)
    ELSE RoundF64(x.neg # y.neg, MulN(x.m, y.m), x.e + y.e, FALSE)

\* Every field of a binary64 is within the format.
F64Valid(x) ==
    \/ x.cls \in {"inf", "nan"} /\ x.m = <<>> /\ x.e = 0
    \/ x.cls = "num" /\ x.m = <<>> /\ x.e = 0
    \/ x.cls = "num" /\ BitLen(x.m) = F64Precision
                     /\ x.e >= F64MinExp /\ x.e <= F64MaxExp
    \/ x.cls = "num" /\ x.m # <<>> /\ BitLen(x.m) < F64Precision /\ x.e = F64MinExp


(***************************************************************************)
(* Layer 3: the program.                                                   *)
(***************************************************************************)

\* main.rs:6-8 and the price endpoint of main.rs:43-45
NEAR_RPC == "https://rpc.mainnet.near.org"

BASE_RPC == "https://base.llamarpc.com"

ARB_RPC == "https://arbitrum.llamarpc.com"

PRICE_API == "https://api.coingecko.com/api/v3/simple/price"

\* main.rs:10-15
NEAR_FIN_TRANSFER_DEPOSIT == Dec(<<600, 000, 000, 000, 000, 000, 000>>)

NEAR_GAS == Dec(<<33, 220, 000, 000, 000>>)

BASE_GAS == 127652

ARB_GAS == 149503

SOLANA_GAS == 103372

\* omni_types::ChainKind, and the values of Args::destination_chain
ChainKind == {"Near", "Eth", "Base", "Arb", "Sol"}

DestinationChains == {"None"} \cup ChainKind

(***************************************************************************)
(* The inputs and the services' answers are drawn from samples: the first  *)
(* NumAmounts transfer counts, NumGasPrices gas prices, NumPrices token    *)
(* prices.  The samples hold the default (1000 transfers), zero, values    *)
(* whose products leave 128 bits, the largest u128, and prices that take   *)
(* the product with the burned amount beyond the greatest binary64 and     *)
(* below the least normal one.                                             *)
(***************************************************************************)
NumAmounts == 4

NumGasPrices == 2

NumPrices == 3

AmountSamples ==
    << Dec(<<1, 000>>), <<>>, Pow10N(17), U128Max, <<1>> >>

GasPriceSamples ==
    << Dec(<<100, 000, 000>>), Dec(<<1, 000, 000>>), U128Max, Pow10N(26) >>

\* 3481.25, 1e300, 1e-320 (a subnormal number), -0.5, 0.0: as_f64() returns
\* any finite binary64 (main.rs:54)
PriceSamples ==
    << RoundF64(FALSE, FromInt(13925), -2, FALSE),
       RoundF64(FALSE, Dec(<<6, 724, 873, 095, 247, 260>>), 944, FALSE),
       RoundF64(FALSE, FromInt(2024), F64MinExp, FALSE),
       RoundF64(TRUE, <<1>>, -1, FALSE), F64Zero(FALSE) >>

Currencies == {"usd"}

Take(samples, n) == {samples[i] : i \in 1..Min(n, Len(samples))}

Amounts == Take(AmountSamples, NumAmounts)

GasPrices == Take(GasPriceSamples, NumGasPrices)

Prices == Take(PriceSamples, NumPrices)

VARIABLES
    args,             \* Args: destination_chain, amount, currency (main.rs:18-34)
    overflow_checks,  \* whether the build panics on integer overflow
    pc,               \* main: "start", "running", "exited", "panicked"
    calcs,            \* the calculators main awaits, in order
    st,               \* per calculator: "idle", "gas_price", "token_price",
                      \* "token_body", "done"
    total,            \* per calculator: the total in the chain's smallest unit (u128)
    burn,             \* per calculator: the total in the display unit (f64)
    inflight,         \* requests sent and not yet answered
    heads,            \* the HTTP status of the response whose body is awaited,
                      \* by price request
    replies,          \* the answers received, by request
    reqlog,           \* every request sent, in order
    stdout,           \* the lines printed
    stderr,           \* the notices and panic messages printed
    status            \* the exit status, <<>> while the process runs

vars == <<args, overflow_checks, pc, calcs, st, total, burn, inflight, heads,
          replies, reqlog, stdout, stderr, status>>

\* get_token_price's match (main.rs:37-41)
Token(chain) ==
    CASE chain = "Near" -> "near"
      [] chain \in {"Eth", "Base", "Arb"} -> "ethereum"
      [] chain = "Sol" -> "solana"

\* get_near_gas_price's client (main.rs:58) and get_evm_gas_price's match
\* (main.rs:79-83)
RpcUrl(chain) ==
    CASE chain = "Near" -> NEAR_RPC
      [] chain = "Base" -> BASE_RPC
      [] chain = "Arb" -> ARB_RPC

\* get_evm_fees' match (main.rs:91-95)
EvmGas(chain) ==
    CASE chain = "Base" -> FromInt(BASE_GAS)
      [] chain = "Arb" -> FromInt(ARB_GAS)

\* The requests.  slot is the calculator that sends the request; it tells
\* apart the two requests for the price of "ethereum" of a run over all chains.
GasPriceRequest(i, chain) ==
    [slot |-> i, method |-> "gas_price", url |-> RpcUrl(chain),
     ids |-> "", vs_currencies |-> ""]

TokenPriceRequest(i, chain, currency) ==
    [slot |-> i, method |-> "GET", url |-> PRICE_API,
     ids |-> Token(chain), vs_currencies |-> currency]

\* What a service can answer.  An RPC call returns Ok(gas price) or Err.  The
\* price request fails before a response arrives (ResponseError), or a response
\* arrives, with its status, and then its body: one that cannot be read as
\* JSON, or JSON without a number at [token][currency], or JSON with one.
Reply(kind, gas, price) == [kind |-> kind, gas |-> gas, price |-> price]

GasPriceReplies ==
    {Reply("error", <<>>, F64Zero(FALSE))}
    \cup {Reply("gas_price", g, F64Zero(FALSE)) : g \in GasPrices}

ResponseError == Reply("error", <<>>, F64Zero(FALSE))

\* The HTTP statuses a response can carry: success, and a server error.
\* get_token_price does not look at the status (main.rs:47-52).
StatusCodes == {200, 500}

TokenPriceReplies ==
    {Reply(k, <<>>, F64Zero(FALSE)) : k \in {"not_json", "no_field"}}
    \cup {Reply("number", <<>>, p) : p \in Prices}

\* The panic messages.
UnwrapErr == "called Result::unwrap() on an Err value"

UnwrapNone == "called Option::unwrap() on a None value"

MulOverflow == "attempt to multiply with overflow"

AddOverflow == "attempt to add with overflow"

Unsupported == "Fee calculation for Ethereum chain is not supported yet"

\* A panic in main's task: the message goes to stderr, the process exits with 101.
PanicStatus == <<101>>

\* `client.call(request).await.unwrap().gas_price` (main.rs:61) and
\* `client.get_gas_price().await.unwrap()` (main.rs:87)
GasPriceResult(reply) ==
    [ok |-> reply.kind = "gas_price", val |-> reply.gas, panic |-> UnwrapErr]

\* As TokenPriceResult, had the code written as_f64().unwrap_or(0.0).
TokenPriceResultOrZero(reply) ==
    [ok    |-> reply.kind \in {"number", "no_field"},
     val   |-> reply.price,
     panic |-> UnwrapErr]

\* `.json::<serde_json::Value>().await.unwrap()` and
\* `response[token][currency].as_f64().unwrap()` (main.rs:50-54)
TokenPriceResult(reply) ==
    [ok    |-> reply.kind = "number",
     val   |-> reply.price,
     panic |-> IF reply.kind = "no_field" THEN UnwrapNone ELSE UnwrapErr]

\* As NearTotal, had the code left out the parentheses around the sum:
\* gas_price * NEAR_GAS * amount + NEAR_FIN_TRANSFER_DEPOSIT.
NearTotalDepositOnce(gas_price, amount) ==
    LET p == U128Mul(gas_price, NEAR_GAS)
        t == U128Mul(p.val, amount)
        s == U128Add(t.val, NEAR_FIN_TRANSFER_DEPOSIT)
    IN  [val |-> s.val, ovf |-> p.ovf \/ t.ovf \/ s.ovf, panic |-> MulOverflow]

\* (get_near_gas_price().await * NEAR_GAS + NEAR_FIN_TRANSFER_DEPOSIT) * amount
\* (main.rs:65)
NearTotal(gas_price, amount) ==
    LET p == U128Mul(gas_price, NEAR_GAS)
        s == U128Add(p.val, NEAR_FIN_TRANSFER_DEPOSIT)
        t == U128Mul(s.val, amount)
    IN  [val   |-> t.val,
         ovf   |-> p.ovf \/ s.ovf \/ t.ovf,
         panic |-> IF ~p.ovf /\ s.ovf THEN AddOverflow ELSE MulOverflow]

\* get_evm_gas_price(chain).await * gas * amount (main.rs:97)
EvmTotal(chain, gas_price, amount) ==
    LET p == U128Mul(gas_price, EvmGas(chain))
        t == U128Mul(p.val, amount)
    IN  [val |-> t.val, ovf |-> p.ovf \/ t.ovf, panic |-> MulOverflow]

\* SOLANA_GAS as u128 * amount (main.rs:110)
SolTotal(amount) ==
    LET t == U128Mul(FromInt(SOLANA_GAS), amount)
    IN  [val |-> t.val, ovf |-> t.ovf, panic |-> MulOverflow]

\* `... as f64 / 1e24`, `/ 1e18`, `/ 1e9` (main.rs:66-67, 97, 110)
NearBurn(t) == F64Div(U128ToF64(t), F64Literal(Pow10N(24)))

EvmBurn(t) == F64Div(U128ToF64(t), F64Literal(Pow10N(18)))

SolBurn(t) == F64Div(U128ToF64(t), F64Literal(Pow10N(9)))

\* The println! of each calculator (main.rs:69-75, 99-106, 112-118): the chain as
\* printed, the unit, the digits after the point of the burn, and the values.
Line(chain, unit, digits, amount, b, fiat, currency) ==
    [chain |-> chain, unit |-> unit, digits |-> digits, amount |-> amount,
     burn |-> b, fiat |-> fiat, currency |-> currency]

\* As Dispatch, had the Eth arm called get_evm_fees as the Base arm does.
DispatchEthAsEvm(destination_chain) ==
    CASE destination_chain = "Near" -> [notice |-> FALSE, calcs |-> <<"Near">>]
      [] destination_chain \in {"Eth", "Base"} -> [notice |-> FALSE, calcs |-> <<"Base">>]
      [] destination_chain = "Arb"  -> [notice |-> FALSE, calcs |-> <<"Arb">>]
      [] destination_chain = "Sol"  -> [notice |-> FALSE, calcs |-> <<"Sol">>]
      [] destination_chain = "None" ->
            [notice |-> FALSE, calcs |-> <<"Near", "Base", "Arb", "Sol">>]

\* main's match (main.rs:125-139): whether the notice is printed, and the
\* calculators that are awaited, in order.
Dispatch(destination_chain) ==
    CASE destination_chain = "Near" -> [notice |-> FALSE, calcs |-> <<"Near">>]
      [] destination_chain = "Eth"  -> [notice |-> TRUE,  calcs |-> <<>>]
      [] destination_chain = "Base" -> [notice |-> FALSE, calcs |-> <<"Base">>]
      [] destination_chain = "Arb"  -> [notice |-> FALSE, calcs |-> <<"Arb">>]
      [] destination_chain = "Sol"  -> [notice |-> FALSE, calcs |-> <<"Sol">>]
      [] destination_chain = "None" ->
            [notice |-> FALSE, calcs |-> <<"Near", "Base", "Arb", "Sol">>]

\* As Awaited, had main started the calculators together (a join of the four
\* futures) instead of awaiting each in turn.
AwaitedNone(i) == TRUE

\* Each calculator is awaited before the next statement of main runs
\* (main.rs:134-137): calculator i starts once those before it have returned.
Awaited(i) == \A j \in 1..(i - 1) : st[j] = "done"

Slots == 1..4

Init ==
    /\ args \in [destination_chain : DestinationChains,
                 amount : Amounts,
                 currency : Currencies]
    /\ overflow_checks \in BOOLEAN
    /\ pc = "start"
    /\ calcs = <<>>
    /\ st = <<>>
    /\ total = <<>>
    /\ burn = <<>>
    /\ inflight = {}
    /\ heads = <<>>
    /\ replies = <<>>
    /\ reqlog = <<>>
    /\ stdout = <<>>
    /\ stderr = <<>>
    /\ status = <<>>

\* A request leaves: a step of `.await` on a client call.
Send(req) ==
    /\ inflight' = inflight \cup {req}
    /\ reqlog' = Append(reqlog, req)

\* An unwrap or an overflow check fails: the process ends with the message.
Panic(msg) ==
    /\ pc' = "panicked"
    /\ stderr' = Append(stderr, msg)
    /\ status' = PanicStatus
    /\ UNCHANGED <<args, overflow_checks, calcs, st, total, burn, inflight,
                   heads, replies, reqlog, stdout>>

\* main, up to its first await (main.rs:122-139)
main ==
    /\ pc = "start"
    /\ LET d == Dispatch(args.destination_chain)
       IN  /\ calcs' = d.calcs
           /\ st' = [i \in 1..Len(d.calcs) |-> "idle"]
           /\ total' = [i \in 1..Len(d.calcs) |-> <<>>]
           /\ burn' = [i \in 1..Len(d.calcs) |-> F64Zero(FALSE)]
           /\ IF d.notice
              THEN /\ stderr' = Append(stderr, Unsupported)
                   /\ pc' = IF d.calcs = <<>> THEN "exited" ELSE "running"
                   /\ status' = IF d.calcs = <<>> THEN <<0>> ELSE status
              ELSE /\ pc' = "running"
                   /\ UNCHANGED <<stderr, status>>
    /\ UNCHANGED <<args, overflow_checks, inflight, heads, replies, reqlog, stdout>>

\* get_near_fees, up to the await of get_near_gas_price (main.rs:57-61, 65)
get_near_gas_price(i) ==
    /\ pc = "running"
    /\ i \in DOMAIN st /\ calcs[i] = "Near" /\ st[i] = "idle"
    /\ Awaited(i)
    /\ Send(GasPriceRequest(i, "Near"))
    /\ st' = [st EXCEPT ![i] = "gas_price"]
    /\ UNCHANGED <<args, overflow_checks, pc, calcs, total, burn, heads, replies,
                   stdout, stderr, status>>

\* get_near_fees, from the gas price to the await of get_token_price
\* (main.rs:61, 65-67, 73, 36-48)
get_near_fees(i) ==
    /\ pc = "running"
    /\ i \in DOMAIN st /\ calcs[i] = "Near" /\ st[i] = "gas_price"
    /\ GasPriceRequest(i, "Near") \in DOMAIN replies
    /\ LET g == GasPriceResult(replies[GasPriceRequest(i, "Near")])
           t == NearTotal(g.val, args.amount)
       IN  IF ~g.ok THEN Panic(g.panic)
           ELSE IF t.ovf /\ overflow_checks THEN Panic(t.panic)
           ELSE /\ total' = [total EXCEPT ![i] = t.val]
                /\ burn' = [burn EXCEPT ![i] = NearBurn(t.val)]
                /\ Send(TokenPriceRequest(i, "Near", args.currency))
                /\ st' = [st EXCEPT ![i] = "token_price"]
                /\ UNCHANGED <<args, overflow_checks, pc, calcs, heads, replies,
                               stdout, stderr, status>>

\* get_evm_fees, up to the await of get_evm_gas_price (main.rs:78-87, 91-97)
get_evm_gas_price(i) ==
    /\ pc = "running"
    /\ i \in DOMAIN st /\ calcs[i] \in {"Base", "Arb"} /\ st[i] = "idle"
    /\ Awaited(i)
    /\ Send(GasPriceRequest(i, calcs[i]))
    /\ st' = [st EXCEPT ![i] = "gas_price"]
    /\ UNCHANGED <<args, overflow_checks, pc, calcs, total, burn, heads, replies,
                   stdout, stderr, status>>

\* get_evm_fees, from the gas price to the await of get_token_price
\* (main.rs:87, 97, 104, 36-48)
get_evm_fees(i) ==
    /\ pc = "running"
    /\ i \in DOMAIN st /\ calcs[i] \in {"Base", "Arb"} /\ st[i] = "gas_price"
    /\ GasPriceRequest(i, calcs[i]) \in DOMAIN replies
    /\ LET g == GasPriceResult(replies[GasPriceRequest(i, calcs[i])])
           t == EvmTotal(calcs[i], g.val, args.amount)
       IN  IF ~g.ok THEN Panic(g.panic)
           ELSE IF t.ovf /\ overflow_checks THEN Panic(t.panic)
           ELSE /\ total' = [total EXCEPT ![i] = t.val]
                /\ burn' = [burn EXCEPT ![i] = EvmBurn(t.val)]
                /\ Send(TokenPriceRequest(i, calcs[i], args.currency))
                /\ st' = [st EXCEPT ![i] = "token_price"]
                /\ UNCHANGED <<args, overflow_checks, pc, calcs, heads, replies,
                               stdout, stderr, status>>

\* get_solana_fees, up to the await of get_token_price (main.rs:110, 116, 36-48)
get_solana_fees(i) ==
    /\ pc = "running"
    /\ i \in DOMAIN st /\ calcs[i] = "Sol" /\ st[i] = "idle"
    /\ Awaited(i)
    /\ LET t == SolTotal(args.amount)
       IN  IF t.ovf /\ overflow_checks THEN Panic(t.panic)
           ELSE /\ total' = [total EXCEPT ![i] = t.val]
                /\ burn' = [burn EXCEPT ![i] = SolBurn(t.val)]
                /\ Send(TokenPriceRequest(i, "Sol", args.currency))
                /\ st' = [st EXCEPT ![i] = "token_price"]
                /\ UNCHANGED <<args, overflow_checks, pc, calcs, heads, replies,
                               stdout, stderr, status>>

\* The chain as each calculator prints it, the unit and the digits of the burn
\* (main.rs:70, 100, 113; {:?} of ChainKind::Base is Base).
LineOf(chain, amount, b, fiat, currency) ==
    CASE chain = "Near" -> Line("NEAR", "NEARs", 3, amount, b, fiat, currency)
      [] chain = "Base" -> Line("Base", "ETHs", 3, amount, b, fiat, currency)
      [] chain = "Arb"  -> Line("Arb", "ETHs", 3, amount, b, fiat, currency)
      [] chain = "Sol"  -> Line("Solana", "SOLs", 6, amount, b, fiat, currency)

\* get_token_price between its two awaits: `reqwest::get(&url).await.unwrap()`
\* and the call of `.json()` on the response (main.rs:47-51)
get_token_price_response(i) ==
    /\ pc = "running"
    /\ i \in DOMAIN st /\ st[i] = "token_price"
    /\ LET req == TokenPriceRequest(i, calcs[i], args.currency)
       IN  /\ req \in DOMAIN heads \/ req \in DOMAIN replies
           /\ IF req \in DOMAIN replies THEN Panic(UnwrapErr)
              ELSE /\ st' = [st EXCEPT ![i] = "token_body"]
                   /\ UNCHANGED <<args, overflow_checks, pc, calcs, total, burn,
                                  inflight, heads, replies, reqlog, stdout,
                                  stderr, status>>

\* get_token_price from the body on, and the calculator's println!
\* (main.rs:50-54, 69-75, 99-106, 112-118)
get_token_price(i) ==
    /\ pc = "running"
    /\ i \in DOMAIN st /\ st[i] = "token_body"
    /\ TokenPriceRequest(i, calcs[i], args.currency) \in DOMAIN replies
    /\ LET p == TokenPriceResult(replies[TokenPriceRequest(i, calcs[i], args.currency)])
       IN  IF ~p.ok THEN Panic(p.panic)
           ELSE /\ stdout' = Append(stdout,
                        LineOf(calcs[i], args.amount, burn[i],
                               F64Mul(burn[i], p.val), args.currency))
                /\ st' = [st EXCEPT ![i] = "done"]
                /\ UNCHANGED <<args, overflow_checks, pc, calcs, total, burn,
                               inflight, heads, replies, reqlog, stderr, status>>

\* main returns once the calculators it awaits have returned (main.rs:139-140)
main_return ==
    /\ pc = "running"
    /\ \A i \in DOMAIN st : st[i] = "done"
    /\ pc' = "exited"
    /\ status' = <<0>>
    /\ UNCHANGED <<args, overflow_checks, calcs, st, total, burn, inflight,
                   heads, replies, reqlog, stdout, stderr>>

\* A service answers an outstanding request.  `.json()` takes the response by
\* value (main.rs:50): once the body is read the response is gone.
Answer(req, reply) ==
    /\ inflight' = inflight \ {req}
    /\ heads' = [r \in DOMAIN heads \ {req} |-> heads[r]]
    /\ replies' = (req :> reply) @@ replies
    /\ UNCHANGED <<args, overflow_checks, pc, calcs, st, total, burn,
                   reqlog, stdout, stderr, status>>

rpc_reply ==
    \E req \in inflight :
        /\ req.method = "gas_price"
        /\ \E reply \in GasPriceReplies : Answer(req, reply)

\* The price request fails, or its response (status line and headers)
\* arrives: `reqwest::get(&url).await` is ready (main.rs:47-48).  The result
\* is Ok(Response) whatever the status.
http_response ==
    \E req \in inflight :
        /\ req.method = "GET" /\ req \notin DOMAIN heads
        /\ \/ Answer(req, ResponseError)
           \/ /\ \E code \in StatusCodes : heads' = (req :> code) @@ heads
              /\ UNCHANGED <<args, overflow_checks, pc, calcs, st, total, burn,
                             inflight, replies, reqlog, stdout, stderr, status>>

\* The body of a response arrives, once the program reads it:
\* `.json().await` is ready (main.rs:50-51).
http_body ==
    \E req \in inflight :
        /\ req \in DOMAIN heads /\ st[req.slot] = "token_body"
        /\ \E reply \in TokenPriceReplies : Answer(req, reply)

Next ==
    \/ main
    \/ \E i \in Slots : get_near_gas_price(i)
    \/ \E i \in Slots : get_near_fees(i)
    \/ \E i \in Slots : get_evm_gas_price(i)
    \/ \E i \in Slots : get_evm_fees(i)
    \/ \E i \in Slots : get_solana_fees(i)
    \/ \E i \in Slots : get_token_price_response(i)
    \/ \E i \in Slots : get_token_price(i)
    \/ main_return
    \/ rpc_reply
    \/ http_response
    \/ http_body

Spec == Init /\ [][Next]_vars


(***************************************************************************)
(* The vocabulary of the properties.                                       *)
(***************************************************************************)
Terminated == pc \in {"exited", "panicked"}

\* The chains of the lines printed so far, in order.
Printed == [k \in 1..Len(stdout) |-> stdout[k].chain]

IsPrefix(a, b) == Len(a) <= Len(b) /\ a = SubSeq(b, 1, Len(a))

\* The lines of each mode, by the chain they name.
LinesOfMode(destination_chain) ==
    CASE destination_chain = "None" -> <<"NEAR", "Base", "Arb", "Solana">>
      [] destination_chain = "Near" -> <<"NEAR">>
      [] destination_chain = "Base" -> <<"Base">>
      [] destination_chain = "Arb"  -> <<"Arb">>
      [] destination_chain = "Sol"  -> <<"Solana">>
      [] destination_chain = "Eth"  -> <<>>

\* A network call failed: the RPC call returned an error, or the price request
\* failed before its response arrived, or the body of the response was not
\* JSON, or the field was missing.
FailedKinds == {"error", "not_json", "no_field"}

FailedRequests == {r \in DOMAIN replies : replies[r].kind \in FailedKinds}

OverflowPanic ==
    \E k \in 1..Len(stderr) : stderr[k] \in {MulOverflow, AddOverflow}

\* Calculator i has computed its total.
Computed(i) == i \in DOMAIN st /\ st[i] \in {"token_price", "token_body", "done"}

\* The requests calculator i has sent, in order.
RequestsOf(i) == SelectSeq(reqlog, LAMBDA r : r.slot = i)

(***************************************************************************)
(* C1.  With no destination chain and every network call succeeding, the   *)
(* program prints exactly four lines, NEAR, Base, Arb, Solana in that      *)
(* order, and then terminates; it never prints a line for Ethereum nor the *)
(* notice that Ethereum is not supported.  Stated on the runs: what is     *)
(* printed is always a prefix of the four lines, the notice is never       *)
(* printed, and a run that has ended with no call failed has printed all   *)
(* four and exited normally.                                               *)
(***************************************************************************)
C1_AllChainsFourLines ==
    args.destination_chain = "None" =>
        /\ IsPrefix(Printed, LinesOfMode("None"))
        /\ \A k \in 1..Len(stderr) : stderr[k] # Unsupported
        /\ (Terminated /\ FailedRequests = {}) =>
                /\ Printed = LinesOfMode("None")
                /\ pc = "exited"

(***************************************************************************)
(* C2.  With destination chain Eth the program sends no request, computes  *)
(* no burn, prints nothing to stdout, prints only the notice to stderr,    *)
(* and exits normally, with status 0.                                      *)
(***************************************************************************)
C2_EthNoticeOnly ==
    args.destination_chain = "Eth" =>
        /\ reqlog = <<>> /\ inflight = {}
        /\ calcs = <<>> /\ total = <<>> /\ burn = <<>>
        /\ stdout = <<>>
        /\ pc \in {"start", "exited"}
        /\ pc = "start" => stderr = <<>> /\ status = <<>>
        /\ pc = "exited" => stderr = <<Unsupported>> /\ status = <<0>>

C2_Witness ==
    args.destination_chain = "Eth" /\ pc = "exited" /\ stderr = <<Unsupported>>

\* A line for a chain is on stdout only if both requests of its calculator were
\* answered successfully, and never if its price response lacked the field.
C3_LineAfterBothFetches ==
    \A i \in DOMAIN st :
        LET price == TokenPriceRequest(i, calcs[i], args.currency)
            gas   == GasPriceRequest(i, calcs[i])
            line  == \E k \in 1..Len(stdout) :
                        stdout[k].chain = LinesOfMode(calcs[i])[1]
        IN  /\ line =>
                /\ price \in DOMAIN replies /\ replies[price].kind = "number"
                /\ calcs[i] # "Sol" =>
                        gas \in DOMAIN replies /\ replies[gas].kind = "gas_price"
            /\ (price \in DOMAIN replies /\ replies[price].kind = "no_field") =>
                    ~line

\* Once a price response without the field has arrived, the next step ends the
\* program and neither prints nor sends.
C3_MissingFieldEnds ==
    (\E r \in DOMAIN replies : replies[r].kind = "no_field") =>
        /\ pc' = "panicked"
        /\ status' # <<0>>
        /\ stdout' = stdout
        /\ reqlog' = reqlog

(***************************************************************************)
(* C3.  A line is printed for a chain only after the gas price request of  *)
(* its calculator (NEAR, Base, Arb) and its price request have both been   *)
(* answered successfully; and once a price response without the field has  *)
(* arrived, the only step the program takes is to end, printing nothing    *)
(* more and sending nothing more.                                          *)
(***************************************************************************)
C3_MissingFieldNoLine == [] C3_LineAfterBothFetches /\ [][C3_MissingFieldEnds]_vars

C3_Witness ==
    /\ pc = "panicked"
    /\ Len(stdout) = 1
    /\ \E r \in DOMAIN replies :
            r.slot = 2 /\ r.method = "GET" /\ replies[r].kind = "no_field"

\* The price responses at hand with a status outside 2xx.
NonSuccessResponses ==
    {r \in DOMAIN heads : heads[r] < 200 \/ heads[r] > 299}

\* The calls that have failed: those of FailedRequests, and the price requests
\* answered with a non-success status.
FailedCalls == FailedRequests \cup NonSuccessResponses

\* At most one call fails, it is the last request sent, the failing calculator
\* has printed no line, the calculators after it were never started, and no
\* request is sent twice.
C4_NoRetryNoLater ==
    /\ Cardinality(FailedCalls) <= 1
    /\ \A k, l \in 1..Len(reqlog) : reqlog[k] = reqlog[l] => k = l
    /\ \A r \in FailedCalls :
            /\ reqlog[Len(reqlog)] = r
            /\ Len(stdout) < r.slot
            /\ \A j \in DOMAIN st : j > r.slot => st[j] = "idle"
            /\ Terminated => pc = "panicked" /\ status = PanicStatus

\* Once a call has failed, the next step ends the program with the panic
\* status and neither prints nor sends.
C4_FailureEnds ==
    FailedCalls # {} =>
        /\ pc' = "panicked"
        /\ status' = PanicStatus
        /\ stdout' = stdout
        /\ reqlog' = reqlog
        /\ inflight' = inflight

(***************************************************************************)
(* C4.  The first failed network call (an RPC error, a price request that  *)
(* fails, a response with a non-2xx status, a body that is not JSON or     *)
(* lacks the field) ends the program: once a call has failed, the only     *)
(* step the program takes is to end with a non-zero status, so no request  *)
(* is sent and no line printed after the failure; the calculators after    *)
(* the failing one are never started; at most one call fails in a run; and *)
(* no request is sent twice.                                               *)
(***************************************************************************)
C4_FirstFailureAborts == [] C4_NoRetryNoLater /\ [][C4_FailureEnds]_vars

\* The same of the failures the code unwraps (FailedRequests) holds in every
\* run.
UnwrappedFailureLast ==
    /\ Cardinality(FailedRequests) <= 1
    /\ \A r \in FailedRequests :
            /\ reqlog[Len(reqlog)] = r
            /\ Len(stdout) < r.slot
            /\ \A j \in DOMAIN st : j > r.slot => st[j] = "idle"
            /\ Terminated => pc = "panicked" /\ status = PanicStatus

UnwrappedFailureEnds ==
    [][FailedRequests # {} =>
            /\ pc' = "panicked"
            /\ status' = PanicStatus
            /\ stdout' = stdout
            /\ reqlog' = reqlog
            /\ inflight' = inflight]_vars

\* The program reads the body of a response whose status is not a success.
NonSuccessBodyRead ==
    \E r \in NonSuccessResponses : pc = "running" /\ st[r.slot] = "token_body"

(***************************************************************************)
(* C5.  At most one request is outstanding, in every mode: every request   *)
(* but the last one sent has been answered.                                *)
(***************************************************************************)
C5_OneRequestAtATime ==
    /\ Cardinality(inflight) <= 1
    /\ \A k \in 1..(Len(reqlog) - 1) : reqlog[k] \in DOMAIN replies
    /\ \A r \in inflight : reqlog[Len(reqlog)] = r

C5_Witness ==
    /\ args.destination_chain = "None"
    /\ Len(reqlog) = 7
    /\ Cardinality(inflight) = 1
    /\ Cardinality(DOMAIN replies) = 6

(***************************************************************************)
(* C6.  With destination chain Near, Base, Arb or Sol and every network    *)
(* call succeeding, the one calculator of that chain runs once: a run that *)
(* has ended has printed exactly that chain's line, has sent requests only *)
(* for that chain, has printed nothing to stderr and has exited normally.  *)
(***************************************************************************)
C6_OneChainOneLine ==
    (/\ args.destination_chain \in {"Near", "Base", "Arb", "Sol"}
     /\ Terminated
     /\ FailedRequests = {}) =>
        /\ Printed = LinesOfMode(args.destination_chain)
        /\ stderr = <<>>
        /\ pc = "exited"
        /\ \A k \in 1..Len(reqlog) :
                \/ reqlog[k] = GasPriceRequest(1, args.destination_chain)
                \/ reqlog[k] = TokenPriceRequest(1, args.destination_chain,
                                                 args.currency)

(***************************************************************************)
(* C7.  With amount = 0, every total and burn a calculator computes is 0,  *)
(* and every line printed shows a burn of 0 and a fiat equivalent of 0,    *)
(* whatever gas price and token price the services return.                 *)
(***************************************************************************)
C7_ZeroAmountZeroBurn ==
    args.amount = <<>> =>
        /\ \A i \in DOMAIN st :
                Computed(i) => total[i] = <<>> /\ burn[i] = F64Zero(FALSE)
        /\ \A k \in 1..Len(stdout) :
                F64IsZero(stdout[k].burn) /\ F64IsZero(stdout[k].fiat)

C7_Witness ==
    /\ args.amount = <<>>
    /\ args.destination_chain = "None"
    /\ Len(stdout) = 4
    /\ \E r \in DOMAIN replies : replies[r].kind = "number" /\ ~F64IsZero(replies[r].price)

\* The totals over the naturals, with no bound on their size.
ExactTotal(chain, gas_price, amount) ==
    IF chain = "Near"
    THEN MulN(AddN(MulN(gas_price, NEAR_GAS), NEAR_FIN_TRANSFER_DEPOSIT), amount)
    ELSE MulN(MulN(gas_price, EvmGas(chain)), amount)

(***************************************************************************)
(* C8.  The total in the smallest unit that the NEAR, Base and Arbitrum    *)
(* calculators compute is the exact value of                               *)
(* (gas_price * NEAR_GAS + NEAR_FIN_TRANSFER_DEPOSIT) * amount, of         *)
(* gas_price * BASE_GAS * amount and of gas_price * ARB_GAS * amount, and  *)
(* no run ends in an overflow panic.                                       *)
(***************************************************************************)
C8_TotalsExact ==
    /\ ~OverflowPanic
    /\ \A i \in DOMAIN st :
            (Computed(i) /\ calcs[i] \in {"Near", "Base", "Arb"}) =>
                total[i] = ExactTotal(calcs[i],
                                      replies[GasPriceRequest(i, calcs[i])].gas,
                                      args.amount)

(***************************************************************************)
(* C9.  The Solana calculator sends no gas price request: the only request *)
(* it sends is one price request for "solana"; and the total in lamports   *)
(* it computes is SOLANA_GAS * amount, whatever the services return.       *)
(***************************************************************************)
C9_SolanaNoGasRequest ==
    \A i \in DOMAIN st :
        calcs[i] = "Sol" =>
            /\ IsPrefix(RequestsOf(i), <<TokenPriceRequest(i, "Sol", args.currency)>>)
            /\ st[i] \in {"idle", "token_price", "token_body", "done"}
            /\ Computed(i) =>
                    /\ RequestsOf(i) = <<TokenPriceRequest(i, "Sol", args.currency)>>
                    /\ total[i] = MulN(FromInt(SOLANA_GAS), args.amount)

(***************************************************************************)
(* C10.  A run that has ended has either printed all the lines of its mode *)
(* and exited normally, or ended at a failed network call; no calculator   *)
(* is entered twice; and the program waits only on the one outstanding     *)
(* request.                                                                *)
(***************************************************************************)
C10_EndsDoneOrAtFailure ==
    /\ Terminated =>
            \/ pc = "exited" /\ Printed = LinesOfMode(args.destination_chain)
            \/ pc = "panicked" /\ FailedRequests # {}
    /\ \A i \in DOMAIN st : Len(RequestsOf(i)) <= 2
    /\ Cardinality(inflight) <= 1

\* While a request is outstanding the program neither sends, nor prints, nor
\* ends: the only step of its own is to go from the response of a price
\* request to the reading of its body.
WaitsOnRequest ==
    [][inflight # {} =>
            \/ rpc_reply \/ http_response \/ http_body
            \/ /\ \E i \in Slots : get_token_price_response(i)
               /\ reqlog' = reqlog /\ stdout' = stdout /\ pc' = pc]_vars

\* Every step advances the run, and a run has at most Rank's bound of steps:
\* no run goes on for ever.
Rank ==
    Len(reqlog) + Cardinality(DOMAIN heads) + 2 * Cardinality(DOMAIN replies) + Len(stdout)
    + Cardinality({i \in DOMAIN st : st[i] \in {"token_body", "done"}})
    + (CASE pc = "start" -> 0 [] pc = "running" -> 1 [] OTHER -> 2)

StepsAdvance == [][Rank' > Rank]_vars

\* The burn a calculator computes is a finite binary64; the fiat equivalent
\* is a finite binary64 or an infinity, never NaN.
BurnsValid ==
    /\ \A i \in DOMAIN burn : F64Valid(burn[i]) /\ burn[i].cls = "num"
    /\ \A k \in 1..Len(stdout) :
            /\ F64Valid(stdout[k].burn) /\ stdout[k].burn.cls = "num"
            /\ F64Valid(stdout[k].fiat) /\ stdout[k].fiat.cls # "nan"

=============================================================================
